---- MODULE Spec2Model ----
(***************************************************************************)
(* A model of gahttp's Pipeline (src/main.go): a fixed pool of workers     *)
(* ranging over one unbuffered channel of requests, the submitting         *)
(* context (Do / Run / Done / SetRateLimit), a context calling Wait, and   *)
(* the per-host rate limiter the workers call before the transport.        *)
(*                                                                         *)
(* The rateLimiter type itself (newRateLimiter, Block) is not among the    *)
(* sources; it is modelled from its written contract: per key, the read of *)
(* the last timestamp, the wait and the write of the new timestamp are one *)
(* critical section, and different keys do not exclude each other.         *)
(*                                                                         *)
(* One context submits (Do, Run, Done, SetRateLimit) and one calls Wait.   *)
(* With a single submitting context the steps of Run (the flag, then per    *)
(* worker wg.Add(1) and the go statement) interleave with nothing that can  *)
(* tell them apart: the new workers block in their receive until the        *)
(* submitter goes on, and Wait sees a counter that is zero before Run and   *)
(* positive from the first Add on.  Run is therefore one step.              *)
(*                                                                         *)
(* Time is kept as ages: for each host, the number of ticks (one tick is   *)
(* one millisecond) since the timestamp in question, saturating at AgeCap  *)
(* (every delay is <= AgeCap ms, so larger ages are indistinguishable).    *)
(* -1 stands for "no timestamp".  Delays are time.Duration values, in      *)
(* nanoseconds.                                                            *)
(***************************************************************************)
EXTENDS Integers, Sequences, FiniteSets

\* ------------------------------------------------------------- bounds
MaxConc == 2          \* largest concurrency level passed to New
MaxItems == 3         \* number of Do calls the submitting context makes
MaxDelay == 1         \* largest delay, in milliseconds, passed to SetRateLimit[Millis]

AgeCap == MaxDelay
Hosts == {"a", "b"}
NoHost == "none"
ConcLevels == (-1)..MaxConc

\* time.Duration counts nanoseconds; SetRateLimitMillis multiplies by this.
NsPerMs == 1000000

\* The delays tried, as time.Duration values.
Delays == {0, MaxDelay * NsPerMs}
Clients == {"default", "custom"}

\* The contexts that call Run concurrently.
Ctx == {1, 2}
Workers == 1..MaxConc
Items == 1..MaxItems

\* A faulty channel: buffered, one slot per worker.
ChanCapBuffered == MaxConc

\* make(chan request): the capacity of p.reqs
ChanCap == 0

VARIABLES
    concurrency,   \* p.concurrency
    running,       \* p.running
    rateLimited,   \* p.rateLimited
    delay,         \* p.rl.delay
    reqs,          \* p.reqs: the items buffered in the channel
    closed,        \* p.reqs has been closed
    wg,            \* p.wg: the WaitGroup's counter
    launched,      \* number of worker goroutines launched so far
    pc,            \* each worker's position in the loop of Run
    cur,           \* each worker's loop variable r (0: none)
    err,           \* each worker's err, as returned by p.client.Do
    callerPc,      \* the submitting context: idle, sending, panicSend, panicClose, panicNil
    sending,       \* the item the submitting context is blocked sending (0: none)
    nextItem,      \* number of Do calls made so far
    itemHost,      \* r.req.URL.Hostname() of every item
    waiterPc,      \* the context calling Wait: idle, waiting, returned
    waitSawClosed, \* whether Done had been called when Wait returned
    rlReqs,        \* rl.reqs: per key, the age of the last recorded timestamp
    rlLock,        \* per key, the worker inside the key's critical section (0: none)
    accepted,      \* history: the items a worker has dequeued
    cbCount,       \* history: per item, the number of callback invocations
    tErr,          \* history: per worker, what the transport returned for its item
    cbErrOk,       \* history: every callback received what the transport returned
    firstItemErr,  \* history: the transport failed for the first item submitted
    lastAdmit,     \* history: per host, age of the last dispatch under rate limiting
    minGap,        \* history: per host, smallest gap seen between two such dispatches
    client,        \* p.client
    lastErr,       \* what the last Get, Post or GetFromHost call returned (none, nil, err)
    itemMethod,    \* the HTTP method of every item built by Get, Post or GetFromHost
    itemCall,      \* history: the call that submitted every item
    lateSets,      \* history: a setter has been called on the running pipeline
    ctxPc          \* further contexts calling Run: idle, set (saw !running), returned

pipeVars == <<concurrency, running, rateLimited, delay, reqs, closed, wg, launched>>
workerVars == <<pc, cur, err>>
callerVars == <<callerPc, sending, nextItem, itemHost>>
waiterVars == <<waiterPc, waitSawClosed>>
rlVars == <<rlReqs, rlLock>>
histVars == <<accepted, cbCount, tErr, cbErrOk, firstItemErr, lastAdmit, minGap>>
extVars == <<client, lastErr, itemMethod, itemCall, lateSets, ctxPc>>
vars == <<pipeVars, workerVars, callerVars, waiterVars, rlVars, histVars, extVars>>

Min(x, y) == IF x < y THEN x ELSE y

\* A panic in any goroutine ends the process.
crashed == callerPc \in {"panicSend", "panicClose", "panicNil"}

\* New(concurrency): an idle pipeline, rate limiting off, delay 0.
Init ==
    /\ concurrency \in ConcLevels
    /\ running = FALSE
    /\ rateLimited = FALSE
    /\ delay = 0
    /\ reqs = <<>>
    /\ closed = FALSE
    /\ wg = 0
    /\ launched = 0
    /\ pc = [w \in Workers |-> "none"]
    /\ cur = [w \in Workers |-> 0]
    /\ err = [w \in Workers |-> FALSE]
    /\ callerPc = "idle"
    /\ sending = 0
    /\ nextItem = 0
    /\ itemHost = [i \in Items |-> NoHost]
    /\ waiterPc = "idle"
    /\ waitSawClosed = FALSE
    /\ rlReqs = [h \in Hosts |-> -1]
    /\ rlLock = [h \in Hosts |-> 0]
    /\ accepted = {}
    /\ cbCount = [i \in Items |-> 0]
    /\ tErr = [w \in Workers |-> FALSE]
    /\ cbErrOk = TRUE
    /\ firstItemErr = FALSE
    /\ lastAdmit = [h \in Hosts |-> -1]
    /\ minGap = [h \in Hosts |-> AgeCap]
    /\ client = "default"
    /\ lastErr = "none"
    /\ itemMethod = [i \in Items |-> "none"]
    /\ itemCall = [i \in Items |-> "none"]
    /\ lateSets = FALSE
    /\ ctxPc = [c \in Ctx |-> "idle"]

\* ------------------------------------------------ the submitting context

\* A faulty SetRateLimit: the toggle is set whatever the delay.
SetRateLimitAlwaysOn(d) ==
    /\ ~crashed /\ callerPc = "idle"
    /\ IF running
       THEN UNCHANGED <<rateLimited, delay>>
       ELSE /\ rateLimited' = TRUE
            /\ delay' = d
    /\ UNCHANGED <<concurrency, running, reqs, closed, wg, launched>>
    /\ UNCHANGED <<workerVars, callerVars, waiterVars, rlVars, histVars>>
    /\ lateSets' = (lateSets \/ running)
    /\ UNCHANGED <<client, lastErr, itemMethod, itemCall, ctxPc>>

\* SetRateLimit(d): ignored once running; otherwise sets the toggle and the delay.
SetRateLimit(d) ==
    /\ ~crashed /\ callerPc = "idle"
    /\ IF running
       THEN UNCHANGED <<rateLimited, delay>>
       ELSE /\ rateLimited' = (d # 0)
            /\ delay' = d
    /\ UNCHANGED <<concurrency, running, reqs, closed, wg, launched>>
    /\ UNCHANGED <<workerVars, callerVars, waiterVars, rlVars, histVars>>
    /\ lateSets' = (lateSets \/ running)
    /\ UNCHANGED <<client, lastErr, itemMethod, itemCall, ctxPc>>

\* A faulty SetRateLimitMillis: the delay is stored, the toggle left alone.
SetRateLimitMillisDelayOnly(m) ==
    /\ ~crashed /\ callerPc = "idle"
    /\ delay' = IF running THEN delay ELSE m * NsPerMs
    /\ lateSets' = (lateSets \/ running)
    /\ UNCHANGED <<client, lastErr, itemMethod, itemCall, ctxPc>>
    /\ UNCHANGED <<concurrency, running, rateLimited, reqs, closed, wg, launched>>
    /\ UNCHANGED <<workerVars, callerVars, waiterVars, rlVars, histVars>>

\* SetRateLimitMillis(m): SetRateLimit(time.Duration(m * 1000000)).
SetRateLimitMillis(m) == SetRateLimit(m * NsPerMs)

\* A faulty SetClient: the running flag is not looked at.
SetClientAnytime(k) ==
    /\ ~crashed /\ callerPc = "idle"
    /\ client' = k
    /\ lateSets' = (lateSets \/ running)
    /\ UNCHANGED <<lastErr, itemMethod, itemCall, ctxPc>>
    /\ UNCHANGED <<pipeVars, workerVars, callerVars, waiterVars, rlVars, histVars>>

\* SetClient(c): ignored once running.
SetClient(k) ==
    /\ ~crashed /\ callerPc = "idle"
    /\ client' = IF running THEN client ELSE k
    /\ lateSets' = (lateSets \/ running)
    /\ UNCHANGED <<lastErr, itemMethod, itemCall, ctxPc>>
    /\ UNCHANGED <<pipeVars, workerVars, callerVars, waiterVars, rlVars, histVars>>

\* SetConcurrency(c): ignored once running.
SetConcurrency(c) ==
    /\ ~crashed /\ callerPc = "idle"
    /\ concurrency' = IF running THEN concurrency ELSE c
    /\ lateSets' = (lateSets \/ running)
    /\ UNCHANGED <<client, lastErr, itemMethod, itemCall, ctxPc>>
    /\ UNCHANGED <<running, rateLimited, delay, reqs, closed, wg, launched>>
    /\ UNCHANGED <<workerVars, callerVars, waiterVars, rlVars, histVars>>

\* The workers Run launches: the loop runs for i = 0 .. concurrency-1.
NewWorkers == {w \in Workers : w <= concurrency}

\* A faulty Run: the workers are launched without wg.Add.
RunBodyNoWgAdd ==
    IF running
    THEN UNCHANGED <<running, wg, launched, pc>>
    ELSE /\ running' = TRUE
         /\ wg' = wg
         /\ launched' = launched + Cardinality(NewWorkers)
         /\ pc' = [w \in Workers |-> IF w \in NewWorkers THEN "recv" ELSE pc[w]]

\* A faulty Run: wg.Add(1) once for the pool instead of once per worker.
RunBodyAddOnce ==
    IF running
    THEN UNCHANGED <<running, wg, launched, pc>>
    ELSE /\ running' = TRUE
         /\ wg' = wg + (IF NewWorkers = {} THEN 0 ELSE 1)
         /\ launched' = launched + Cardinality(NewWorkers)
         /\ pc' = [w \in Workers |-> IF w \in NewWorkers THEN "recv" ELSE pc[w]]

\* A faulty Run: the running flag is not looked at.
RunBodyAlways ==
    /\ running' = TRUE
    /\ wg' = wg + Cardinality(NewWorkers)
    /\ launched' = launched + Cardinality(NewWorkers)
    /\ pc' = [w \in Workers |-> IF w \in NewWorkers THEN "recv" ELSE pc[w]]

\* The body of Run: nothing when running; otherwise running is set and, per
\* worker, wg.Add(1) precedes the go statement.
RunBody ==
    IF running
    THEN UNCHANGED <<running, wg, launched, pc>>
    ELSE /\ running' = TRUE
         /\ wg' = wg + Cardinality(NewWorkers)
         /\ launched' = launched + Cardinality(NewWorkers)
         /\ pc' = [w \in Workers |-> IF w \in NewWorkers THEN "recv" ELSE pc[w]]

Run ==
    /\ ~crashed /\ callerPc = "idle"
    /\ RunBody
    /\ UNCHANGED <<concurrency, rateLimited, delay, reqs, closed>>
    /\ UNCHANGED <<cur, err, callerVars, waiterVars, rlVars, histVars>>
    /\ UNCHANGED extVars

\* Run called from context c, first half: if p.running { return }.
RunCheck(c) ==
    /\ ~crashed /\ ctxPc[c] = "idle"
    /\ ctxPc' = [ctxPc EXCEPT ![c] = IF running THEN "returned" ELSE "set"]
    /\ UNCHANGED <<client, lastErr, itemMethod, itemCall, lateSets>>
    /\ UNCHANGED <<pipeVars, workerVars, callerVars, waiterVars, rlVars, histVars>>

\* The goroutines a further execution of Run's loop launches.
MoreWorkers == {w \in Workers : launched < w /\ w <= launched + concurrency}

\* Run called from context c, second half: p.running = true and the loop,
\* whatever another context has done since the check.
RunLaunch(c) ==
    /\ ~crashed /\ ctxPc[c] = "set"
    /\ ctxPc' = [ctxPc EXCEPT ![c] = "returned"]
    /\ running' = TRUE
    /\ wg' = wg + Cardinality(MoreWorkers)
    /\ launched' = launched + Cardinality(MoreWorkers)
    /\ pc' = [w \in Workers |-> IF w \in MoreWorkers THEN "recv" ELSE pc[w]]
    /\ UNCHANGED <<client, lastErr, itemMethod, itemCall, lateSets>>
    /\ UNCHANGED <<concurrency, rateLimited, delay, reqs, closed>>
    /\ UNCHANGED <<cur, err, callerVars, waiterVars, rlVars, histVars>>

\* Do(r, fn) for a request to host h: Run when not running, then the send
\* p.reqs <- request{r, fn}.  A send on a closed channel panics; a send
\* completes at once while the buffer has room; otherwise it blocks until a
\* worker receives.
DoBody(h) ==
    /\ ~crashed /\ callerPc = "idle"
    /\ nextItem < MaxItems
    /\ IF ~running THEN RunBody ELSE UNCHANGED <<running, wg, launched, pc>>
    /\ nextItem' = nextItem + 1
    /\ itemHost' = [itemHost EXCEPT ![nextItem + 1] = h]
    /\ IF closed
       THEN /\ callerPc' = "panicSend"
            /\ UNCHANGED <<reqs, sending>>
       ELSE IF Len(reqs) < ChanCap
       THEN /\ reqs' = Append(reqs, nextItem + 1)
            /\ UNCHANGED <<callerPc, sending>>
       ELSE /\ callerPc' = "sending"
            /\ sending' = nextItem + 1
            /\ UNCHANGED reqs
    /\ UNCHANGED <<concurrency, rateLimited, delay, closed>>
    /\ UNCHANGED <<cur, err, waiterVars, rlVars, histVars>>

Do(h) == DoBody(h) /\ UNCHANGED extVars

\* A faulty send: on the closed channel it blocks like any other send.
DoAfterDoneBlocks(h) ==
    /\ ~crashed /\ callerPc = "idle"
    /\ nextItem < MaxItems
    /\ closed
    /\ IF ~running THEN RunBody ELSE UNCHANGED <<running, wg, launched, pc>>
    /\ nextItem' = nextItem + 1
    /\ itemHost' = [itemHost EXCEPT ![nextItem + 1] = h]
    /\ itemCall' = [itemCall EXCEPT ![nextItem + 1] = "DoRecovered"]
    /\ callerPc' = "sending"
    /\ sending' = nextItem + 1
    /\ UNCHANGED <<concurrency, rateLimited, delay, reqs, closed>>
    /\ UNCHANGED <<cur, err, waiterVars, rlVars, histVars>>
    /\ UNCHANGED <<client, lastErr, itemMethod, lateSets, ctxPc>>

\* Do(r, fn) after Done, called under a deferred recover(): Run when not
\* running, then the send panics and the caller carries on.
DoRecovered(h) ==
    /\ ~crashed /\ callerPc = "idle"
    /\ nextItem < MaxItems
    /\ closed
    /\ IF ~running THEN RunBody ELSE UNCHANGED <<running, wg, launched, pc>>
    /\ nextItem' = nextItem + 1
    /\ itemHost' = [itemHost EXCEPT ![nextItem + 1] = h]
    /\ itemCall' = [itemCall EXCEPT ![nextItem + 1] = "DoRecovered"]
    /\ UNCHANGED <<callerPc, sending>>
    /\ UNCHANGED <<concurrency, rateLimited, delay, reqs, closed>>
    /\ UNCHANGED <<cur, err, waiterVars, rlVars, histVars>>
    /\ UNCHANGED <<client, lastErr, itemMethod, lateSets, ctxPc>>

\* A call that returns err without doing anything else.
ReturnErr ==
    /\ ~crashed /\ callerPc = "idle"
    /\ lastErr' = "err"
    /\ UNCHANGED <<client, itemMethod, itemCall, lateSets, ctxPc>>
    /\ UNCHANGED <<pipeVars, workerVars, callerVars, waiterVars, rlVars, histVars>>

\* p.Do(req, fn) on a request built with the given method, then return nil.
Submit(call, method, h) ==
    /\ DoBody(h)
    /\ itemMethod' = [itemMethod EXCEPT ![nextItem + 1] = method]
    /\ itemCall' = [itemCall EXCEPT ![nextItem + 1] = call]
    /\ lastErr' = "nil"
    /\ UNCHANGED <<client, lateSets, ctxPc>>

\* A faulty Get: the pipeline is started before the request is built.
GetRunFirst(ok, h) ==
    IF ok THEN Submit("Get", "GET", h)
    ELSE /\ ~crashed /\ callerPc = "idle"
         /\ IF ~running THEN RunBody ELSE UNCHANGED <<running, wg, launched, pc>>
         /\ lastErr' = "err"
         /\ UNCHANGED <<client, itemMethod, itemCall, lateSets, ctxPc>>
         /\ UNCHANGED <<concurrency, rateLimited, delay, reqs, closed>>
         /\ UNCHANGED <<cur, err, callerVars, waiterVars, rlVars, histVars>>

\* Get(u, fn): http.NewRequest("GET", u, nil); ok tells whether it succeeds.
Get(ok, h) == IF ok THEN Submit("Get", "GET", h) ELSE ReturnErr

\* Post(u, body, fn): http.NewRequest("GET", u, body), as the source has it.
Post(ok, h) == IF ok THEN Submit("Post", "GET", h) ELSE ReturnErr

\* req.Host = urlHost with req nil: a nil-pointer dereference, which panics.
NilDeref ==
    /\ ~crashed /\ callerPc = "idle"
    /\ callerPc' = "panicNil"
    /\ UNCHANGED <<sending, nextItem, itemHost>>
    /\ UNCHANGED <<pipeVars, workerVars, waiterVars, rlVars, histVars, extVars>>

\* GetFromHost(u, actualHost, fn): url.Parse(u), which may fail and return the
\* error; then http.NewRequest on u with the host replaced, which may fail
\* too, and req.Host is assigned before that error is looked at.
GetFromHost(parseOk, buildOk, h) ==
    IF ~parseOk THEN ReturnErr
    ELSE IF ~buildOk THEN NilDeref
    ELSE Submit("GetFromHost", "GET", h)

\* Done(): close(p.reqs); closing a closed channel panics.
Done ==
    /\ ~crashed /\ callerPc = "idle"
    /\ IF closed
       THEN callerPc' = "panicClose"
       ELSE UNCHANGED callerPc
    /\ closed' = TRUE
    /\ UNCHANGED <<concurrency, running, rateLimited, delay, reqs, wg, launched>>
    /\ UNCHANGED <<sending, nextItem, itemHost>>
    /\ UNCHANGED <<workerVars, waiterVars, rlVars, histVars>>
    /\ UNCHANGED extVars

\* ------------------------------------------------------------- Wait

WaitCall ==
    /\ ~crashed /\ waiterPc = "idle"
    /\ waiterPc' = "waiting"
    /\ UNCHANGED waitSawClosed
    /\ UNCHANGED <<pipeVars, workerVars, callerVars, rlVars, histVars>>
    /\ UNCHANGED extVars

\* p.wg.Wait() returns when the counter is zero.
WaitReturn ==
    /\ ~crashed /\ waiterPc = "waiting"
    /\ wg = 0
    /\ waiterPc' = "returned"
    /\ waitSawClosed' = closed
    /\ UNCHANGED <<pipeVars, workerVars, callerVars, rlVars, histVars>>
    /\ UNCHANGED extVars

\* ------------------------------------------------------------ workers

\* A faulty key: the same for every item.
HostnameShared(i) == "a"

\* r.req.URL.Hostname(): the rate limiter's key for an item.
Hostname(i) == itemHost[i]

\* A faulty worker: Block is never called.
AfterRecvNoLimit == "do"

\* A faulty worker: Block is called whatever the toggle says.
AfterRecvAlwaysBlock == "block"

\* if p.rateLimited { p.rl.Block(...) }: where a worker goes with a new item.
AfterRecv == IF rateLimited THEN "block" ELSE "do"

\* History: a worker proceeds to the transport for host h under rate limiting.
RecordAdmit(h) ==
    IF rateLimited
    THEN /\ lastAdmit' = [lastAdmit EXCEPT ![h] = 0]
         /\ minGap' = [minGap EXCEPT ![h] =
                          IF lastAdmit[h] = -1 THEN @ ELSE Min(@, lastAdmit[h])]
    ELSE UNCHANGED <<lastAdmit, minGap>>

\* for r := range p.reqs: worker w receives an item, from the buffer or, the
\* buffer being empty, directly from the blocked sender.
Recv(w) ==
    /\ ~crashed /\ pc[w] = "recv"
    /\ reqs # <<>> \/ callerPc = "sending"
    /\ LET i == IF reqs # <<>> THEN Head(reqs) ELSE sending
       IN /\ cur' = [cur EXCEPT ![w] = i]
          /\ accepted' = accepted \cup {i}
          /\ pc' = [pc EXCEPT ![w] = AfterRecv]
          /\ IF AfterRecv = "do"
             THEN RecordAdmit(itemHost[i])
             ELSE UNCHANGED <<lastAdmit, minGap>>
    /\ reqs' = IF reqs = <<>> THEN reqs
               ELSE IF callerPc = "sending" THEN Append(Tail(reqs), sending)
               ELSE Tail(reqs)
    /\ IF callerPc = "sending"
       THEN /\ callerPc' = "idle"
            /\ sending' = 0
       ELSE UNCHANGED <<callerPc, sending>>
    /\ UNCHANGED <<concurrency, running, rateLimited, delay, closed, wg, launched>>
    /\ UNCHANGED <<err, nextItem, itemHost, waiterVars, rlVars>>
    /\ UNCHANGED <<cbCount, tErr, cbErrOk, firstItemErr>>
    /\ UNCHANGED extVars

\* A faulty worker: it leaves without p.wg.Done().
WorkerExitNoWgDone(w) ==
    /\ ~crashed /\ pc[w] = "recv"
    /\ closed /\ reqs = <<>>
    /\ pc' = [pc EXCEPT ![w] = "done"]
    /\ UNCHANGED wg
    /\ UNCHANGED <<concurrency, running, rateLimited, delay, reqs, closed, launched>>
    /\ UNCHANGED <<cur, err, callerVars, waiterVars, rlVars, histVars>>
    /\ UNCHANGED extVars

\* The range loop ends once the channel is closed and empty; then p.wg.Done().
WorkerExit(w) ==
    /\ ~crashed /\ pc[w] = "recv"
    /\ closed /\ reqs = <<>>
    /\ pc' = [pc EXCEPT ![w] = "done"]
    /\ wg' = wg - 1
    /\ UNCHANGED <<concurrency, running, rateLimited, delay, reqs, closed, launched>>
    /\ UNCHANGED <<cur, err, callerVars, waiterVars, rlVars, histVars>>
    /\ UNCHANGED extVars

\* rl.Block(key), entry: with delay 0 Block is a no-op; otherwise the caller
\* enters the key's critical section, which excludes other callers with the
\* same key only.
BlockEnter(w) ==
    /\ ~crashed /\ pc[w] = "block"
    /\ LET key == Hostname(cur[w])
       IN IF delay = 0
          THEN /\ pc' = [pc EXCEPT ![w] = "do"]
               /\ RecordAdmit(itemHost[cur[w]])
               /\ UNCHANGED rlLock
          ELSE /\ rlLock[key] = 0
               /\ rlLock' = [rlLock EXCEPT ![key] = w]
               /\ pc' = [pc EXCEPT ![w] = "blockwait"]
               /\ UNCHANGED <<lastAdmit, minGap>>
    /\ UNCHANGED <<pipeVars, cur, err, callerVars, waiterVars, rlReqs>>
    /\ UNCHANGED <<accepted, cbCount, tErr, cbErrOk, firstItemErr>>
    /\ UNCHANGED extVars

\* Whether a key's last timestamp is at least the delay old (or absent).
NoWaitNeeded(key) == rlReqs[key] = -1 \/ rlReqs[key] * NsPerMs >= delay

\* rl.Block(key), exit: once the delay has elapsed since the key's last
\* timestamp, the current time is recorded and the critical section left.
BlockAdmit(w) ==
    /\ ~crashed /\ pc[w] = "blockwait"
    /\ LET key == Hostname(cur[w])
       IN /\ NoWaitNeeded(key)
          /\ rlReqs' = [rlReqs EXCEPT ![key] = 0]
          /\ rlLock' = [rlLock EXCEPT ![key] = 0]
    /\ pc' = [pc EXCEPT ![w] = "do"]
    /\ RecordAdmit(itemHost[cur[w]])
    /\ UNCHANGED <<pipeVars, cur, err, callerVars, waiterVars>>
    /\ UNCHANGED <<accepted, cbCount, tErr, cbErrOk, firstItemErr>>
    /\ UNCHANGED extVars

\* A faulty worker: it returns on a transport error, without callback.
TransportDoStopOnErr(w, e) ==
    /\ ~crashed /\ pc[w] = "do"
    /\ err' = [err EXCEPT ![w] = e]
    /\ tErr' = [tErr EXCEPT ![w] = e]
    /\ firstItemErr' = (firstItemErr \/ (e /\ cur[w] = 1))
    /\ pc' = [pc EXCEPT ![w] = IF e THEN "done" ELSE "fn"]
    /\ UNCHANGED <<pipeVars, cur, callerVars, waiterVars, rlVars>>
    /\ UNCHANGED <<accepted, cbCount, cbErrOk, lastAdmit, minGap>>
    /\ UNCHANGED extVars

\* resp, err := p.client.Do(r.req): the transport answers or fails.
TransportDo(w, e) ==
    /\ ~crashed /\ pc[w] = "do"
    /\ err' = [err EXCEPT ![w] = e]
    /\ tErr' = [tErr EXCEPT ![w] = e]
    /\ firstItemErr' = (firstItemErr \/ (e /\ cur[w] = 1))
    /\ pc' = [pc EXCEPT ![w] = "fn"]
    /\ UNCHANGED <<pipeVars, cur, callerVars, waiterVars, rlVars>>
    /\ UNCHANGED <<accepted, cbCount, cbErrOk, lastAdmit, minGap>>
    /\ UNCHANGED extVars

\* A faulty worker: no callback when the transport failed.
CallbackSkipOnErr(w) ==
    /\ ~crashed /\ pc[w] = "fn"
    /\ cbCount' = [cbCount EXCEPT ![cur[w]] = IF err[w] THEN @ ELSE @ + 1]
    /\ cbErrOk' = (cbErrOk /\ err[w] = tErr[w])
    /\ tErr' = [tErr EXCEPT ![w] = FALSE]
    /\ pc' = [pc EXCEPT ![w] = "recv"]
    /\ cur' = [cur EXCEPT ![w] = 0]
    /\ err' = [err EXCEPT ![w] = FALSE]
    /\ UNCHANGED <<pipeVars, callerVars, waiterVars, rlVars>>
    /\ UNCHANGED <<accepted, firstItemErr, lastAdmit, minGap>>
    /\ UNCHANGED extVars

\* r.fn(r.req, resp, err), then back to the head of the loop.
Callback(w) ==
    /\ ~crashed /\ pc[w] = "fn"
    /\ cbCount' = [cbCount EXCEPT ![cur[w]] = @ + 1]
    /\ cbErrOk' = (cbErrOk /\ err[w] = tErr[w])
    /\ tErr' = [tErr EXCEPT ![w] = FALSE]
    /\ pc' = [pc EXCEPT ![w] = "recv"]
    /\ cur' = [cur EXCEPT ![w] = 0]
    /\ err' = [err EXCEPT ![w] = FALSE]
    /\ UNCHANGED <<pipeVars, callerVars, waiterVars, rlVars>>
    /\ UNCHANGED <<accepted, firstItemErr, lastAdmit, minGap>>
    /\ UNCHANGED extVars

\* --------------------------------------------------------------- time

Older(a) == IF a = -1 THEN -1 ELSE Min(a + 1, AgeCap)

\* One unit of time passes: every timestamp is one tick older.
Tick ==
    /\ ~crashed
    /\ \E h \in Hosts : Older(rlReqs[h]) # rlReqs[h] \/ Older(lastAdmit[h]) # lastAdmit[h]
    /\ rlReqs' = [h \in Hosts |-> Older(rlReqs[h])]
    /\ lastAdmit' = [h \in Hosts |-> Older(lastAdmit[h])]
    /\ UNCHANGED <<pipeVars, workerVars, callerVars, waiterVars, rlLock>>
    /\ UNCHANGED <<accepted, cbCount, tErr, cbErrOk, firstItemErr, minGap>>
    /\ UNCHANGED extVars

\* ------------------------------------------------------ specification

\* The hosts a Do call is tried with: hosts are interchangeable, so the first
\* request goes to host "a" without loss of generality.
DoHosts == IF nextItem = 0 THEN {"a"} ELSE Hosts

\* The pipeline with a caller that keeps the submission protocol: no Do after
\* Done, and Done once.  SetRateLimit and Run on a running pipeline change
\* nothing: they are stuttering steps, which [][Next]_vars admits as it is.
Next ==
    \/ \E d \in Delays : ~running /\ SetRateLimit(d)
    \/ ~running /\ Run
    \/ \E h \in DoHosts : ~closed /\ Do(h)
    \/ ~closed /\ Done
    \/ WaitCall
    \/ WaitReturn
    \/ \E w \in Workers : Recv(w)
    \/ \E w \in Workers : WorkerExit(w)
    \/ \E w \in Workers : BlockEnter(w)
    \/ \E w \in Workers : BlockAdmit(w)
    \/ \E w \in Workers, e \in BOOLEAN : TransportDo(w, e)
    \/ \E w \in Workers : Callback(w)
    \/ Tick

Spec == Init /\ [][Next]_vars

\* The Go scheduler runs every goroutine that can take a step, the transport
\* and the callbacks return, and time passes.
Fairness ==
    /\ WF_vars(WaitReturn)
    /\ WF_vars(Tick)
    /\ \A w \in Workers :
         /\ WF_vars(Recv(w))
         /\ WF_vars(WorkerExit(w))
         /\ WF_vars(BlockEnter(w))
         /\ WF_vars(BlockAdmit(w))
         /\ WF_vars(\E e \in BOOLEAN : TransportDo(w, e))
         /\ WF_vars(Callback(w))

FairSpec == Spec /\ Fairness

\* The pipeline with a caller that also reconfigures it, before and after the
\* start, and calls Run at any time.
CfgNext ==
    \/ \E d \in Delays : SetRateLimit(d)
    \/ \E m \in 0..MaxDelay : SetRateLimitMillis(m)
    \/ \E c \in ConcLevels : SetConcurrency(c)
    \/ \E k \in Clients : SetClient(k)
    \/ Run
    \/ ~closed /\ Do("a")
    \/ ~closed /\ Done
    \/ \E w \in Workers : Recv(w)
    \/ \E w \in Workers : WorkerExit(w)
    \/ \E w \in Workers : BlockEnter(w)
    \/ \E w \in Workers : BlockAdmit(w)
    \/ \E w \in Workers, e \in BOOLEAN : TransportDo(w, e)
    \/ \E w \in Workers : Callback(w)
    \/ Tick

CfgSpec == Init /\ [][CfgNext]_vars

\* The pipeline, no rate limit set, with a caller that submits through Get,
\* Post and GetFromHost.
ApiNext ==
    \/ ~running /\ Run
    \/ \E ok \in BOOLEAN : ~closed /\ Get(ok, "a")
    \/ \E ok \in BOOLEAN : ~closed /\ Post(ok, "a")
    \/ \E parseOk, buildOk \in BOOLEAN : ~closed /\ GetFromHost(parseOk, buildOk, "a")
    \/ ~closed /\ Done
    \/ WaitCall
    \/ WaitReturn
    \/ \E w \in Workers : Recv(w)
    \/ \E w \in Workers : WorkerExit(w)
    \/ \E w \in Workers, e \in BOOLEAN : TransportDo(w, e)
    \/ \E w \in Workers : Callback(w)

ApiSpec == Init /\ [][ApiNext]_vars

\* Two contexts call Run at the same time on the idle pipeline, the check and
\* the set of p.running being separate steps; once both have returned the
\* pipeline is used as usual.  The levels are those for which two pools fit
\* in Workers.
RaceInit == Init /\ 2 * concurrency <= MaxConc

Started == \A c \in Ctx : ctxPc[c] = "returned"

RaceNext ==
    \/ \E c \in Ctx : RunCheck(c)
    \/ \E c \in Ctx : RunLaunch(c)
    \/ \E h \in DoHosts : Started /\ ~closed /\ Do(h)
    \/ Started /\ ~closed /\ Done
    \/ WaitCall
    \/ WaitReturn
    \/ \E w \in Workers : Recv(w)
    \/ \E w \in Workers : WorkerExit(w)
    \/ \E w \in Workers, e \in BOOLEAN : TransportDo(w, e)
    \/ \E w \in Workers : Callback(w)

RaceSpec == RaceInit /\ [][RaceNext]_vars

\* The pipeline, no rate limit set, with a caller that goes on calling Do
\* after Done, with or without a deferred recover().
MisuseNext ==
    \/ ~running /\ Run
    \/ Do("a")
    \/ DoRecovered("a")
    \/ ~closed /\ Done
    \/ WaitCall
    \/ WaitReturn
    \/ \E w \in Workers : Recv(w)
    \/ \E w \in Workers : WorkerExit(w)
    \/ \E w \in Workers, e \in BOOLEAN : TransportDo(w, e)
    \/ \E w \in Workers : Callback(w)

MisuseSpec == Init /\ [][MisuseNext]_vars

\* ------------------------------------------------------------- claims

\* Every launched worker has left its loop and called p.wg.Done().
AllExited == \A w \in Workers : pc[w] \in {"none", "done"}

\* The items whose Do call has returned.
Submitted == {i \in 1..nextItem : i # sending /\ ~(callerPc = "panicSend" /\ i = nextItem)}

\* C1: once Done has been called and a Wait has returned after it, every item
\* submitted with Do has had its callback invoked exactly once; at no time has a
\* callback been invoked twice, or for an item no worker dequeued.
C1_ExactlyOnce ==
    /\ \A i \in Items : cbCount[i] <= 1
    /\ \A i \in Items : cbCount[i] = 1 => i \in accepted /\ i \in Submitted
    /\ (closed /\ waiterPc = "returned" /\ waitSawClosed)
          => \A i \in Submitted : cbCount[i] = 1

\* C1, its case: two workers, Done and Wait after all the Do calls, every callback fired.
C1_Witness ==
    /\ launched = MaxConc /\ nextItem = MaxItems
    /\ closed /\ waiterPc = "returned" /\ waitSawClosed
    /\ \A i \in Items : cbCount[i] = 1

\* C2: Wait never returns while a launched worker is still running: in the
\* step in which Wait returns, every worker launched has exited and the callback
\* of every item a worker accepted has returned.
C2_WaitAfterWorkers ==
    [][(waiterPc = "waiting" /\ waiterPc' = "returned")
         => (AllExited' /\ \A i \in accepted' : cbCount'[i] = 1)]_vars

\* C2, its case: Wait has returned on a pipeline whose workers ran callbacks and exited.
C2_Witness ==
    /\ waiterPc = "returned" /\ waitSawClosed
    /\ launched = MaxConc /\ AllExited
    /\ \E i \in Items : cbCount[i] = 1

\* C3: after Done, under fair scheduling, every worker eventually exits and a
\* pending Wait eventually returns; with Done called and no item submitted, no
\* callback has fired.
C3_DrainsAndReturns ==
    /\ closed ~> AllExited
    /\ (closed /\ waiterPc = "waiting") ~> (waiterPc = "returned")
    /\ []((closed /\ nextItem = 0) => \A i \in Items : cbCount[i] = 0)

\* C3, its case: Done with zero items on a started pipeline; the workers have
\* exited and Wait has returned with no callback fired.
C3_Witness ==
    /\ closed /\ nextItem = 0 /\ launched = MaxConc
    /\ AllExited /\ waiterPc = "returned" /\ waitSawClosed
    /\ \A i \in Items : cbCount[i] = 0

\* C4: with rate limiting enabled at delay D > 0, any two consecutive dispatches
\* to the transport for one host are at least D apart.
C4_MinGap ==
    (rateLimited /\ delay > 0) => \A h \in Hosts : minGap[h] * NsPerMs >= delay

\* C4, its case: two workers raced on one host and both have been admitted.
C4_Witness ==
    /\ rateLimited /\ delay > 0
    /\ \E w \in Workers, v \in Workers :
         /\ w # v
         /\ pc[w] \in {"do", "fn"} /\ pc[v] \in {"do", "fn"}
         /\ itemHost[cur[w]] = itemHost[cur[v]]

\* Another worker is inside Block for an item of the same host as w's item.
HostBusy(w) ==
    \E v \in Workers :
        v # w /\ pc[v] = "blockwait" /\ itemHost[cur[v]] = itemHost[cur[w]]

\* C5: a worker calling Block for host B is not held up by Block calls for other
\* hosts: when no other worker is inside Block for B it can enter, and when B
\* needs no wait it is admitted, whatever goes on for the other hosts.
C5_CrossKey ==
    (rateLimited /\ delay > 0) =>
        \A w \in Workers :
            /\ (pc[w] = "block" /\ ~HostBusy(w)) => ENABLED BlockEnter(w)
            /\ (pc[w] = "blockwait" /\ NoWaitNeeded(itemHost[cur[w]]))
                  => ENABLED BlockAdmit(w)

\* C5, its case: one worker is waiting out the delay of host A while another
\* calls Block for a different host.
C5_Witness ==
    \E w \in Workers, v \in Workers :
        /\ pc[w] = "block" /\ pc[v] = "blockwait"
        /\ itemHost[cur[w]] # itemHost[cur[v]]
        /\ ~NoWaitNeeded(itemHost[cur[v]])

\* C6: with delay 0 no worker is ever inside the rate limiter: it goes from
\* the dequeue straight to the transport.
C6_NoDelay ==
    delay = 0 => \A w \in Workers : pc[w] \notin {"block", "blockwait"}

\* C6, its case: delay 0 and a worker at the transport for a host that an
\* earlier request already went to.
C6_Witness ==
    /\ delay = 0 /\ running
    /\ \E w \in Workers, i \in Items :
         pc[w] = "do" /\ cbCount[i] = 1 /\ itemHost[i] = itemHost[cur[w]]

\* C7: a failed transport call reaches the callback as that error, exactly once;
\* no worker leaves its loop before Done; once all workers have exited every item
\* a worker accepted has had its callback.
C7_ErrorDelivered ==
    /\ cbErrOk
    /\ \A i \in Items : cbCount[i] <= 1
    /\ \A w \in Workers : pc[w] = "done" => closed
    /\ (closed /\ AllExited) => \A i \in accepted : cbCount[i] = 1

\* C7, its case: one worker, the first item's transport call failed, and the
\* items submitted after it have had their callbacks too.
C7_Witness ==
    /\ launched = 1 /\ firstItemErr
    /\ nextItem = MaxItems /\ \A i \in Items : cbCount[i] = 1

\* C8: with concurrency <= 0 no call blocks forever: a Do blocked in its send
\* has a launched worker to hand the item to.
C8_NoDeadlock ==
    (concurrency <= 0 /\ callerPc = "sending") => launched > 0

\* C9 as stated: a Wait never returns as long as Done has not been called.
C9_Original ==
    waiterPc = "returned" => waitSawClosed

\* C9, amended: once at least one worker has been launched, a Wait never
\* returns as long as Done has not been called.
C9_Amended ==
    [][(waiterPc = "waiting" /\ waiterPc' = "returned" /\ ~closed) => launched = 0]_vars

\* C9, its case: Wait is blocked on a running pipeline before Done, the queue
\* empty and every worker idle after a callback.
C9_Witness ==
    /\ waiterPc = "waiting" /\ ~closed /\ launched = MaxConc
    /\ callerPc = "idle" /\ \A w \in Workers : pc[w] = "recv"
    /\ \E i \in Items : cbCount[i] = 1

\* C10: submission is a rendezvous: the channel never buffers an item, every
\* item whose Do has returned has been dequeued by a worker, and a blocked Do
\* returns only in a step in which an idle worker receives its item.
C10_Rendezvous ==
    /\ [](reqs = <<>> /\ Submitted \subseteq accepted)
    /\ [][(callerPc = "sending" /\ callerPc' # "sending")
            => \E w \in Workers : pc[w] = "recv" /\ cur'[w] = sending]_vars

\* C10, its case: Do is blocked while every worker is busy with an item.
C10_Witness ==
    /\ callerPc = "sending" /\ launched = MaxConc
    /\ \A w \in Workers : pc[w] \in {"block", "blockwait", "do", "fn"}

\* C11: once the pipeline is running no step changes the concurrency level, the
\* client, the delay, the rate-limit toggle or the number of workers launched;
\* a setter called before that takes effect.
C11_FrozenAfterStart ==
    /\ [][running => /\ running'
                     /\ concurrency' = concurrency /\ client' = client
                     /\ delay' = delay /\ rateLimited' = rateLimited
                     /\ launched' = launched]_vars
    /\ [][\A c \in ConcLevels : (~running /\ SetConcurrency(c)) => concurrency' = c]_vars
    /\ [][\A k \in Clients : (~running /\ SetClient(k)) => client' = k]_vars
    /\ [][\A d \in Delays : (~running /\ SetRateLimit(d))
             => (delay' = d /\ rateLimited' = (d # 0))]_vars
    /\ [][\A m \in 0..MaxDelay : (~running /\ SetRateLimitMillis(m))
             => (delay' = m * NsPerMs /\ rateLimited' = (m # 0))]_vars

\* C11, its case: setters were called before the start and took effect, and
\* again on the running pipeline.
C11_Witness ==
    /\ running /\ lateSets
    /\ client = "custom" /\ rateLimited /\ launched = MaxConc

\* C12: a Get or Post whose request cannot be built returns an error and
\* changes nothing else: nothing is enqueued, no worker is launched, the
\* running flag stays, and only items of calls that built their request are
\* ever dequeued or called back.
C12_FailedBuildNoEffect ==
    /\ [][(Get(FALSE, "a") \/ Post(FALSE, "a"))
            => /\ lastErr' = "err"
               /\ UNCHANGED <<pipeVars, workerVars, callerVars, waiterVars>>
               /\ UNCHANGED <<rlVars, histVars, client, itemMethod, itemCall>>]_vars
    /\ [](\A i \in Items : (i \in accepted \/ cbCount[i] > 0 \/ i = sending)
             => itemCall[i] # "none")

\* C12, its case: a failed call was the last one made on a pipeline that is
\* still not started.
C12_Witness ==
    /\ lastErr = "err" /\ ~running /\ launched = 0 /\ nextItem = 0 /\ concurrency > 0

\* C13: the request a worker executes for an item submitted by Post has the
\* method POST, and for one submitted by Get the method GET.
C13_PostIsPost ==
    \A w \in Workers :
        pc[w] = "do" =>
            /\ itemCall[cur[w]] = "Post" => itemMethod[cur[w]] = "POST"
            /\ itemCall[cur[w]] = "Get" => itemMethod[cur[w]] = "GET"

\* The positions at which a worker holds an item.
Holding == {"block", "blockwait", "do", "fn"}

\* C14: the worker that dequeued an item takes it, alone, through Block on the
\* item's host (only if rate limiting is on), then the transport call, then
\* the callback, and dequeues again only after the callback; with rate
\* limiting off Block is not called and the limiter is left untouched.
C14_WorkerOrder ==
    /\ [][\A w \in Workers :
            /\ (pc[w] = "recv" /\ pc'[w] # "recv")
                  => \/ pc'[w] = "done" /\ cur'[w] = 0
                     \/ /\ cur'[w] \in Items /\ cur'[w] \notin accepted
                        /\ pc'[w] = IF rateLimited THEN "block" ELSE "do"
            /\ (pc[w] = "block" /\ pc'[w] # "block")
                  => /\ cur'[w] = cur[w]
                     /\ \/ pc'[w] = "do" /\ delay = 0
                        \/ pc'[w] = "blockwait" /\ rlLock'[itemHost[cur[w]]] = w
            /\ (pc[w] = "blockwait" /\ pc'[w] # "blockwait")
                  => /\ cur'[w] = cur[w] /\ pc'[w] = "do"
                     /\ rlReqs'[itemHost[cur[w]]] = 0
            /\ (pc[w] = "do" /\ pc'[w] # "do")
                  => cur'[w] = cur[w] /\ pc'[w] = "fn"
            /\ (pc[w] = "fn" /\ pc'[w] # "fn")
                  => /\ pc'[w] = "recv" /\ cur'[w] = 0
                     /\ cbCount'[cur[w]] = cbCount[cur[w]] + 1
            /\ pc[w] \in {"none", "done"} => pc'[w] \in {pc[w], "recv"}
            /\ ~rateLimited => pc'[w] \notin {"block", "blockwait"}]_vars
    /\ [][\A i \in Items :
            cbCount'[i] # cbCount[i]
               => \E w \in Workers : pc[w] = "fn" /\ cur[w] = i /\ pc'[w] = "recv"]_vars
    /\ [][~rateLimited => (rlReqs' = rlReqs /\ rlLock' = rlLock)]_vars
    /\ [](\A w \in Workers : (pc[w] \in Holding) = (cur[w] # 0))
    /\ [](\A w, v \in Workers : (w # v /\ cur[w] # 0) => cur[w] # cur[v])

\* C14, its case: under rate limiting a worker has taken its second item
\* through Block and the transport and is about to call back, the first
\* item's callback having returned.
C14_Witness ==
    /\ rateLimited /\ delay > 0
    /\ \E w \in Workers :
         /\ pc[w] = "fn" /\ cur[w] = 2 /\ cbCount[1] = 1 /\ cbCount[2] = 0
         /\ rlReqs[itemHost[2]] >= 0

\* The number of workers a start launches: the concurrency level, none when
\* it is not positive.
PoolSize == IF concurrency > 0 THEN concurrency ELSE 0

\* C15: with one submitting context the start is lazy and happens once: no
\* worker exists before the first Run or Do, that step launches as many
\* workers as the concurrency level set at that moment, and no later step
\* launches another.
C15_LazyStartOnce ==
    /\ [](~running => (launched = 0 /\ wg = 0 /\ nextItem = 0))
    /\ [](running => launched = PoolSize)
    /\ [][(~running /\ running')
            => /\ launched' = PoolSize /\ concurrency' = concurrency
               /\ Run \/ \E h \in Hosts : Do(h)]_vars
    /\ [][running => (running' /\ launched' = launched)]_vars
    /\ [](\A w \in Workers : (pc[w] # "none") = (running /\ w <= PoolSize))

\* C15, its case: the pipeline was configured and started, and every Do call
\* has been made, the later ones on the running pipeline, with the one pool
\* of workers.
C15_Witness ==
    /\ running /\ launched = MaxConc /\ client = "custom"
    /\ nextItem = MaxItems /\ callerPc = "idle"

\* C16: however the calls of several contexts interleave, the workers ever
\* launched are as many as the concurrency level, and Wait's barrier counts
\* that many exits.
C16_OnePool ==
    /\ launched <= PoolSize
    /\ wg <= PoolSize
    /\ Started => launched = PoolSize

\* The items dequeued whose callback has not returned.
InFlight == {i \in accepted : cbCount[i] = 0}

\* C17: at any time at most as many items as the concurrency level are
\* dequeued and not yet called back (none when the level is not positive),
\* each of them held by a worker of its own.
C17_BoundedInFlight ==
    /\ Cardinality(InFlight) <= PoolSize
    /\ \A i \in InFlight : \E w \in Workers : cur[w] = i /\ w <= PoolSize

\* The items of Do calls made after Done.
LateItems ==
    {i \in Items : itemCall[i] = "DoRecovered" \/ (callerPc = "panicSend" /\ i = nextItem)}

\* An item of a Do call made after Done is never sent, dequeued or called back.
LateNeverRun ==
    \A i \in LateItems :
        /\ i \notin accepted /\ cbCount[i] = 0
        /\ i # sending /\ \A k \in 1..Len(reqs) : reqs[k] # i

\* C18, as stated: an item of a Do after Done is never run and, the program
\* having come to rest after Done (every worker gone, or the process ended by
\* the panic), every item a worker had accepted has had its callback.
C18_Original ==
    /\ LateNeverRun
    /\ (closed /\ (crashed \/ (running /\ AllExited)))
          => \A i \in accepted : cbCount[i] = 1

\* C18, amended: an item of a Do after Done is never run and the call panics;
\* callbacks made stay made; if the panic is recovered the workers drain, so
\* that once all have gone every accepted item has had its callback.  (After
\* an unrecovered panic nothing runs any more.)
C18_Amended ==
    /\ []LateNeverRun
    /\ [][(closed /\ nextItem' # nextItem)
            => \/ callerPc' = "panicSend"
               \/ itemCall'[nextItem'] = "DoRecovered" /\ callerPc' = "idle"]_vars
    /\ [][\A i \in Items : cbCount'[i] >= cbCount[i] /\ (i \in accepted => i \in accepted')]_vars
    /\ []((closed /\ ~crashed /\ running /\ AllExited)
            => \A i \in accepted : cbCount[i] = 1)
    /\ [](crashed => ~ENABLED MisuseNext)

\* C18, its case: after accepted items and Done, a Do panicked and was
\* recovered; the workers have gone, every accepted item has had its
\* callback, the late one none.
C18_Witness ==
    /\ closed /\ running /\ AllExited /\ ~crashed
    /\ \E i \in LateItems : i > 1
    /\ accepted # {} /\ \A i \in accepted : cbCount[i] = 1

\* C19: whatever SetRateLimit and SetRateLimitMillis calls were made, before
\* or after the start, the toggle is on exactly when the delay is not zero.
C19_ToggleIffDelay == rateLimited = (delay # 0)

\* C19, its case: a delay was set before the start and setters were called
\* again, without effect, on the running pipeline.
C19_Witness ==
    /\ running /\ lateSets /\ delay = MaxDelay * NsPerMs /\ rateLimited
    /\ \E w \in Workers : pc[w] = "blockwait"

\* C20: GetFromHost never fails abnormally: when the URL does not parse or
\* the request cannot be built, the call returns an error, and no item is
\* submitted by a call that failed.
C20_ErrorReturned ==
    /\ callerPc # "panicNil"
    /\ \A i \in Items : itemCall[i] = "GetFromHost" => itemMethod[i] = "GET"

====
